---- MODULE Spec2Model ----
(***************************************************************************)
(* Shortcut capture form (AddShortcutForm, two variants) and the App that  *)
(* saves its candidates.                                                   *)
(*   variant "v2": src/unnamed/part_002 (form with in-place step editing)  *)
(*   variant "v1": src/src/components/AddShortcutForm.tsx (earlier form)   *)
(*   App:          src/unnamed/part_000                                    *)
(* A handler, the re-render it causes and the effects of that render are   *)
(* one atomic action.                                                      *)
(***************************************************************************)
EXTENDS Integers, Sequences, FiniteSets, Bags, TLC

VARIABLES
  \* ---- props of the form and its mount state
  variant, mounted, isOpen, existingShortcut,
  \* ---- React state of the form
  name, sequence, isCapturing, activeTab, isRecording, editingIndex, editedStroke,
  \* ---- refs of the form
  debounceTimeout, modifierKeys, regularKeys, activeTabRef, isRecordingRef,
  \* ---- environment of the form: the Tabs widget's own value, the timers
  \*      scheduled with window.setTimeout, the keydown/keyup handler pairs
  \*      attached to window
  tabsValue, timers, listeners,
  \* ---- observers (history variables, read by the properties only; recLog
  \*      is kept for variant v2)
  lastCommit, before, lastDown, lastSettled, recLog, dropped, tabChanged,
  \* ---- the JSON editor of the form: its text and its error line; and an
  \*      observer of the submit just made
  jsonInput, jsonError, submitted,
  \* ---- observer of the input just handled: a keyboard event of the window
  \*      listeners, or a click on a row button or on stop recording
  lastInput,
  \* ---- observer of step editing: the place (0-based) where the step the
  \*      user selected for editing now stands in the sequence
  selectedStep,
  \* ---- App state, the backing store, the invoke calls in flight, the
  \*      reading of Date.now(), and an observer of the last save
  shortcuts, store, editingShortcut, isAddingShortcut, inflight, lastSave, clock,
  \* ---- observer of the invoke call that just failed
  lastFailure

propVars  == <<variant, mounted, isOpen, existingShortcut>>
stateVars == <<name, sequence, isCapturing, activeTab, isRecording, editingIndex, editedStroke>>
refVars   == <<debounceTimeout, modifierKeys, regularKeys, activeTabRef, isRecordingRef>>
envVars   == <<tabsValue, timers, listeners>>
obsVars   == <<lastCommit, before, lastDown, lastSettled, recLog, dropped, tabChanged>>
jsonVars  == <<jsonInput, jsonError>>
formVars  == <<propVars, stateVars, refVars, envVars, obsVars, jsonVars, submitted, lastInput,
               selectedStep>>
appVars   == <<shortcuts, store, editingShortcut, isAddingShortcut, inflight, lastSave, clock,
               lastFailure>>
vars      == <<formVars, appVars>>

----------------------------------------------------------------------------
(* Bounds and input alphabets *)

\* longest sequence the model records
MaxSeq == 2

\* largest number of invoke calls in flight at once
MaxInflight == 2

\* last reading of Date.now() the model hands out as an id
MaxClock == 2

\* raw key identifiers delivered by the event source
Keys == {"Control", "ArrowUp"}

\* texts typed into the name field and into the step edit field
NameInputs == {"", "n"}
StrokeInputs == {"", "X"}

TabValues == {"shortcut", "record", "json"}

\* null of an object-valued prop or state
Null == [null |-> TRUE]

\* editingIndex === null (indices are 0-based as in the source)
NoIndex == -1

\* no value (observer variables)
NONE == "<none>"

\* the shortcuts an edit form is opened on
ExistingShortcuts == { [id |-> 1, name |-> "n", sequence |-> <<"Control+Up", "Up">>] }

----------------------------------------------------------------------------
(* Pure helpers *)

\* faulty variant: the key identifier is shown as delivered
displayKey_Raw(key) == key

displayKey(key) ==
  CASE key = " "          -> "Space"
    [] key = "ArrowUp"    -> "Up"
    [] key = "ArrowDown"  -> "Down"
    [] key = "ArrowLeft"  -> "Left"
    [] key = "ArrowRight" -> "Right"
    [] OTHER              -> key

isModifierKey(key) ==
  key = "Control" \/ key = "Shift" \/ key = "Alt" \/ key = "Meta"

\* Array.prototype.join
RECURSIVE Join(_, _)
Join(s, sep) ==
  IF Len(s) = 0 THEN ""
  ELSE IF Len(s) = 1 THEN s[1]
  ELSE s[1] \o sep \o Join(Tail(s), sep)

\* Array.prototype.map(displayKey)
MapDisplay(s) == [i \in 1..Len(s) |-> displayKey(s[i])]

\* Set.prototype.add on an insertion-ordered set
SetAdd(s, k) == IF \E i \in 1..Len(s) : s[i] = k THEN s ELSE Append(s, k)

\* faulty variant: the whole set is emptied
SetDelete_Clear(s, k) == <<>>

\* Set.prototype.delete on an insertion-ordered set
SetDelete(s, k) == SelectSeq(s, LAMBDA x : x # k)

\* the combination formed from the held sets; "" when no regular key is held
KeyCombination(mods, regs) ==
  LET modifiers == MapDisplay(mods)
      regulars  == MapDisplay(regs)
  IN  IF Len(modifiers) > 0 /\ Len(regulars) > 0
        THEN Join(modifiers, "+") \o "+" \o Join(regulars, "+")
      ELSE IF Len(regulars) > 0
        THEN Join(regulars, "+")
      ELSE ""

\* clearTimeout(id): a pending timer with that id is dropped
ClearTimeout(tm, id) == { t \in tm : t.id # id }

\* window.setTimeout returns an id no pending timer has
NewTimerId(tm) == CHOOSE i \in 1..(Cardinality(tm) + 1) : \A t \in tm : t.id # i

\* faulty variant: the shortcut tab appends as the record tab does
ShortcutCommit_Append(seq, combo) == Append(seq, combo)

\* the debounce callback on the shortcut tab: setSequence([keyCombination])
ShortcutCommit(seq, combo) == <<combo>>

\* faulty variant: recording replaces as the shortcut tab does
RecordCommit_Replace(seq, combo) == <<combo>>

\* the debounce callback while recording:
\* setSequence((prevSequence) => [...prevSequence, keyCombination])
RecordCommit(seq, combo) == Append(seq, combo)

\* faulty variant: capture stays enabled after the commit
CaptureAfterCommit_StaysOn == TRUE

\* the debounce callback on the shortcut tab: setIsCapturing(false)
CaptureAfterCommit == FALSE

\* faulty variant: the cleanup leaves the pending timer
CleanupTimers_Leave(tm, cur) == tm

\* faulty variant: the cleanup leaves the handlers attached
Detach_Leak(n, attached) == n

\* cleanup of the listener effect: removeEventListener of the handler pair
\* the run attached (n pairs are attached)
Detach(n, attached) == IF attached /\ n > 0 THEN n - 1 ELSE n

\* cleanup of the listener effect:
\* if (debounceTimeout.current) clearTimeout(debounceTimeout.current)
CleanupTimers(tm, cur) == IF cur # 0 THEN ClearTimeout(tm, cur) ELSE tm

\* nothing cancelled (observer variable dropped)
NoEvent == [op |-> "none"]

\* what a handler op cancelled with clearTimeout(id): the pending combination
Cancelled(op, tm, id) ==
  IF \E t \in tm : t.id = id
    THEN [op |-> op, combo |-> (CHOOSE t \in tm : t.id = id).combo]
    ELSE NoEvent

\* faulty variant: the outstanding timer is not cleared
ClearPending_NoClear(tm, cur) == tm

\* "if (debounceTimeout.current) clearTimeout(debounceTimeout.current)"
ClearPending(tm, cur) == IF cur # 0 THEN ClearTimeout(tm, cur) ELSE tm

\* faulty variant: a repeated key-down is handled like a first one
IgnoreRepeat_Never(repeat) == FALSE

\* "if (event.repeat) return;"
IgnoreRepeat(repeat) == repeat

\* faulty variant: a combination is captured whatever is held
OnlyModifiers_Never(mods, regs) == FALSE

\* the final "else { return; }" of the combination: no regular key is held
OnlyModifiers(mods, regs) ==
  ~(Len(mods) > 0 /\ Len(regs) > 0) /\ ~(Len(regs) > 0)

\* none of the observed inputs (observer variable lastInput)
NoInput == [op |-> "none"]

\* the event a key handler was called with; held tells whether the key was
\* in its set when the event arrived
KeyEvent(op, key, repeat, mods, regs) ==
  [op |-> op, key |-> key, repeat |-> repeat,
   held |-> \E i \in 1..Len(mods \o regs) : (mods \o regs)[i] = key]

\* a click on a button of the row of step index (0-based), or on confirm or
\* cancel of the row in edit; value is the text of the edit field and was
\* the sequence when the click arrived
RowEvent(op, index, value, seq) ==
  [op |-> op, index |-> index, value |-> value, was |-> seq]

\* the place of the selected step after a handler: no step is selected once
\* no step is in edit (observer variable selectedStep)
StillSelected(sel, idx) == IF idx = NoIndex THEN NoIndex ELSE sel

\* the place of the selected step after the row of step index was deleted:
\* gone with its own row, one place up when a row above it went
SelectedAfterDelete(sel, index) ==
  IF sel = NoIndex \/ index = sel THEN NoIndex
  ELSE IF index < sel THEN sel - 1
  ELSE sel

\* a click on the stop recording button; pending tells whether a debounce
\* timer was pending when it arrived
StopEvent(tm) == [op |-> "stopRecording", pending |-> tm # {}]

----------------------------------------------------------------------------
(* JavaScript values and JSON text. A value carries its type; a text is the *)
(* sequence of its JSON tokens (white space, which JSON.parse skips and     *)
(* JSON.stringify(v, null, 2) inserts, is not represented).                 *)

JUndefined == [t |-> "undefined"]
JNull == [t |-> "null"]
JStr(s) == [t |-> "str", v |-> s]
JNum(n) == [t |-> "num", v |-> n]
JArr(elems) == [t |-> "arr", v |-> elems]
\* an object: its properties in insertion order
JObj(props) == [t |-> "obj", v |-> props]
Prop(k, x) == [k |-> k, x |-> x]

\* a token of JSON text: punctuation, a string literal, a number literal or
\* a literal name
Tok(k, s) == [k |-> k, s |-> s]
P(s) == Tok("p", s)

\* decimal text of the numbers the model uses, and back
NumText(n) == CASE n = 0 -> "0" [] n = 1 -> "1" [] n = 2 -> "2" [] OTHER -> "3"
NumValue(s) == CASE s = "0" -> 0 [] s = "1" -> 1 [] s = "2" -> 2 [] OTHER -> 3

\* o[k] of a value: undefined unless o is an object with that property
Get(o, k) ==
  IF o.t = "obj" /\ \E i \in 1..Len(o.v) : o.v[i].k = k
    THEN o.v[CHOOSE i \in 1..Len(o.v) : o.v[i].k = k].x
    ELSE JUndefined

\* a value used as a condition
ToBoolean(x) ==
  CASE x.t \in {"undefined", "null"} -> FALSE
    [] x.t = "str" -> x.v # ""
    [] x.t = "num" -> x.v # 0
    [] OTHER -> TRUE

\* assignment of property k: an existing property keeps its place
PutProp(props, k, x) ==
  IF \E i \in 1..Len(props) : props[i].k = k
    THEN [i \in 1..Len(props) |-> IF props[i].k = k THEN Prop(k, x) ELSE props[i]]
    ELSE Append(props, Prop(k, x))

RECURSIVE PutAll(_, _)
PutAll(props, more) ==
  IF more = <<>> THEN props
  ELSE PutAll(PutProp(props, more[1].k, more[1].x), Tail(more))

\* { ...a, ...b } of two objects
JSpread(a, b) == JObj(PutAll(a.v, b.v))

RECURSIVE Flatten(_, _)
\* the texts of parts, separated by the token sep
Flatten(parts, sep) ==
  IF parts = <<>> THEN <<>>
  ELSE IF Len(parts) = 1 THEN parts[1]
  ELSE parts[1] \o <<sep>> \o Flatten(Tail(parts), sep)

RECURSIVE JSONstringify(_)
\* JSON.stringify(x, null, 2); a property whose value is undefined is left out
JSONstringify(x) ==
  CASE x.t = "str" -> <<Tok("str", x.v)>>
    [] x.t = "num" -> <<Tok("num", NumText(x.v))>>
    [] x.t = "null" -> <<Tok("lit", "null")>>
    [] x.t = "arr" ->
         <<P("[")>> \o Flatten([i \in 1..Len(x.v) |-> JSONstringify(x.v[i])], P(","))
                    \o <<P("]")>>
    [] x.t = "obj" ->
         LET kept == SelectSeq(x.v, LAMBDA pr : pr.x.t # "undefined")
         IN  <<P("{")>>
               \o Flatten([i \in 1..Len(kept) |->
                             <<Tok("str", kept[i].k), P(":")>> \o JSONstringify(kept[i].x)],
                          P(","))
               \o <<P("}")>>
    [] OTHER -> <<>>

SyntaxError == [ok |-> FALSE]
Parsed(x, rest) == [ok |-> TRUE, val |-> x, rest |-> rest]

RECURSIVE ParseValue(_), ParseElements(_, _), ParseMembers(_, _)
\* one JSON value at the head of the tokens
ParseValue(toks) ==
  IF toks = <<>> THEN SyntaxError
  ELSE LET h == toks[1]
           rest == Tail(toks)
       IN  CASE h.k = "str" -> Parsed(JStr(h.s), rest)
             [] h.k = "num" -> Parsed(JNum(NumValue(h.s)), rest)
             [] h.k = "lit" -> IF h.s = "null" THEN Parsed(JNull, rest) ELSE SyntaxError
             [] h = P("[") ->
                  IF rest # <<>> /\ rest[1] = P("]")
                    THEN Parsed(JArr(<<>>), Tail(rest))
                    ELSE ParseElements(rest, <<>>)
             [] h = P("{") ->
                  IF rest # <<>> /\ rest[1] = P("}")
                    THEN Parsed(JObj(<<>>), Tail(rest))
                    ELSE ParseMembers(rest, <<>>)
             [] OTHER -> SyntaxError

\* the elements of an array after "[" or ",", up to "]"
ParseElements(toks, acc) ==
  LET r == ParseValue(toks)
  IN  IF ~r.ok \/ r.rest = <<>> THEN SyntaxError
      ELSE IF r.rest[1] = P(",") THEN ParseElements(Tail(r.rest), Append(acc, r.val))
      ELSE IF r.rest[1] = P("]") THEN Parsed(JArr(Append(acc, r.val)), Tail(r.rest))
      ELSE SyntaxError

\* the members of an object after "{" or ",", up to "}"
ParseMembers(toks, acc) ==
  IF Len(toks) < 2 \/ toks[1].k # "str" \/ toks[2] # P(":") THEN SyntaxError
  ELSE LET r == ParseValue(Tail(Tail(toks)))
       IN  IF ~r.ok \/ r.rest = <<>> THEN SyntaxError
           ELSE IF r.rest[1] = P(",")
                  THEN ParseMembers(Tail(r.rest), PutProp(acc, toks[1].s, r.val))
           ELSE IF r.rest[1] = P("}")
                  THEN Parsed(JObj(PutProp(acc, toks[1].s, r.val)), Tail(r.rest))
           ELSE SyntaxError

\* JSON.parse(text): the value, or a SyntaxError
JSONparse(text) ==
  LET r == ParseValue(text)
  IN  IF r.ok /\ r.rest = <<>> THEN [ok |-> TRUE, val |-> r.val] ELSE SyntaxError

----------------------------------------------------------------------------
(* The listener effect's condition and the initial states *)

\* faulty variant: the effect attaches whatever the state
V2ListenCond_Always(cap, rec, tab, idx) == TRUE

\* faulty variant: the shortcut tab listens whether or not capture is enabled
V2ListenCond_IgnoreCapturing(cap, rec, tab, idx) ==
  ((tab = "shortcut") \/ (rec /\ tab = "record")) /\ idx = NoIndex

\* condition of the listener effect of v2
V2ListenCond(cap, rec, tab, idx) ==
  ((cap /\ tab = "shortcut") \/ (rec /\ tab = "record")) /\ idx = NoIndex

\* condition of the listener effect of v1
V1ListenCond(cap, rec, tab) ==
  (cap /\ tab = "shortcut") \/ (rec /\ tab = "record")

\* useState initialisers of the form, and the state after the mount effects
\* a Shortcut object as a JavaScript value
JsShortcut(e) ==
  JObj(  (IF "id" \in DOMAIN e THEN <<Prop("id", JNum(e.id))>> ELSE <<>>)
      \o (IF "name" \in DOMAIN e THEN <<Prop("name", JStr(e.name))>> ELSE <<>>)
      \o <<Prop("sequence", JArr([i \in 1..Len(e.sequence) |-> JStr(e.sequence[i])]))>>)

\* no submit was just made
NoSubmit == [op |-> "none"]

\* what handleSubmit did: the tab and the JSON text it read, and the
\* candidate it handed to onSave (undefined when it handed none)
Submit(tab, text, shortcut) ==
  [op |-> "submit", tab |-> tab, text |-> text,
   handed |-> shortcut.t # "undefined", shortcut |-> shortcut]

\* the error lines of the JSON editor
MissingFieldsError == "JSON must contain 'sequence' and 'name' fields."
InvalidJsonError == "Invalid JSON format."

\* the sequence of the form as a JavaScript array
JsSequence(seq) == JArr([i \in 1..Len(seq) |-> JStr(seq[i])])

\* existingShortcut ? { ...existingShortcut, ...fields } : fields
OntoExisting(existing, fields) ==
  IF existing # Null THEN JSpread(JsShortcut(existing), fields) ELSE fields

\* faulty variant: a text that does not parse is reported as missing fields
SubmitJson_SyntaxAsMissing(existing, text) ==
  LET parsed == JSONparse(text)
  IN  IF parsed.ok /\ parsed.val.t # "null"
           /\ ToBoolean(Get(parsed.val, "sequence")) /\ ToBoolean(Get(parsed.val, "name"))
        THEN [shortcut |-> OntoExisting(existing, parsed.val), error |-> "kept"]
        ELSE [shortcut |-> JUndefined, error |-> MissingFieldsError]

\* the json branch of handleSubmit: the candidate, or the error line set.
\* Reading a property of null throws inside the try, so it ends in the catch.
SubmitJson(existing, text) ==
  LET parsed == JSONparse(text)
  IN  IF ~parsed.ok \/ parsed.val.t = "null"
        THEN [shortcut |-> JUndefined, error |-> InvalidJsonError]
      ELSE IF ToBoolean(Get(parsed.val, "sequence")) /\ ToBoolean(Get(parsed.val, "name"))
        THEN [shortcut |-> OntoExisting(existing, parsed.val), error |-> "kept"]
      ELSE [shortcut |-> JUndefined, error |-> MissingFieldsError]

\* the shortcut branch of handleSubmit
SubmitShortcut(existing, seq, nm) ==
  IF Len(seq) > 0
    THEN OntoExisting(existing,
                      JObj(<<Prop("sequence", JsSequence(seq)),
                             Prop("name", JStr(IF nm # "" THEN nm ELSE seq[1]))>>))
    ELSE JUndefined

\* the record branch of handleSubmit; v1 also asks for a name
SubmitRecord(existing, seq, nm, needName) ==
  IF Len(seq) > 0 /\ (needName => nm # "")
    THEN OntoExisting(existing,
                      JObj(<<Prop("sequence", JsSequence(seq)), Prop("name", JStr(nm))>>))
    ELSE JUndefined

\* texts typed into the JSON editor
JsonTexts ==
  { <<>>,
    <<Tok("lit", "null")>>,
    <<P("{"), Tok("str", "name")>>,
    <<P("{"), P("}")>>,
    <<P("{"), Tok("str", "name"), P(":"), Tok("str", "Test"), P("}")>>,
    <<P("{"), Tok("str", "sequence"), P(":"), P("["), Tok("str", "Up"), P("]"), P("}")>>,
    <<P("{"), Tok("str", "name"), P(":"), Tok("str", "n"), P(","),
      Tok("str", "sequence"), P(":"), P("["), P("]"), P("}")>>,
    <<P("{"), Tok("str", "name"), P(":"), Tok("str", "n"), P(","),
      Tok("str", "sequence"), P(":"), P("["), Tok("str", "Up"), P("]"), P("}")>>,
    <<P("{"), Tok("str", "id"), P(":"), Tok("num", "2"), P(","),
      Tok("str", "name"), P(":"), Tok("str", "n"), P(","),
      Tok("str", "sequence"), P(":"), P("["), Tok("str", "Up"), P("]"), P("}")>> }

\* the form after its first render, for an existingShortcut among those given
FormInitWith(existing) ==
  /\ variant \in {"v1", "v2"}
  /\ existingShortcut \in {Null} \cup existing
  /\ jsonInput = IF existingShortcut # Null
                   THEN JSONstringify(JsShortcut(existingShortcut)) ELSE <<>>
  /\ jsonError = ""
  /\ submitted = NoSubmit
  /\ lastInput = NoInput
  /\ selectedStep = NoIndex
  /\ mounted = TRUE
  \* the add form is mounted closed, an edit form is mounted open
  /\ isOpen = (existingShortcut # Null)
  /\ name = IF existingShortcut # Null /\ "name" \in DOMAIN existingShortcut
              THEN existingShortcut.name ELSE ""
  /\ sequence = IF existingShortcut # Null THEN existingShortcut.sequence ELSE <<>>
  \* useState(false); in v1 the mount effect arms capture when the form is open
  /\ isCapturing = (variant = "v1" /\ isOpen)
  /\ activeTab = "shortcut"
  /\ isRecording = FALSE
  /\ editingIndex = NoIndex
  /\ editedStroke = ""
  /\ debounceTimeout = 0
  /\ modifierKeys = <<>>
  /\ regularKeys = <<>>
  /\ activeTabRef = "shortcut"
  /\ isRecordingRef = FALSE
  /\ tabsValue = "shortcut"
  /\ timers = {}
  \* the listener effect of the first render
  /\ listeners = IF variant = "v1"
                   THEN IF V1ListenCond(isCapturing, isRecording, activeTab)
                          THEN 1 ELSE 0
                   ELSE IF V2ListenCond(isCapturing, isRecording, activeTab, editingIndex)
                          THEN 1 ELSE 0
  /\ lastCommit = NONE
  /\ before = Null
  /\ lastDown = ""
  /\ lastSettled = ""
  /\ recLog = <<>>
  /\ dropped = NoEvent
  /\ tabChanged = FALSE

FormInit == FormInitWith(ExistingShortcuts)

\* the App as constructed: empty list, nothing in flight yet
AppIdle ==
  /\ shortcuts = <<>>
  /\ store = <<>>
  /\ editingShortcut = Null
  /\ isAddingShortcut = FALSE
  /\ inflight = EmptyBag
  /\ lastSave = Null
  /\ clock = 1
  /\ lastFailure = Null

----------------------------------------------------------------------------
(* Variant v2: src/unnamed/part_002 *)

\* the dependency list of the listener effect (handleKeyDown changes with
\* isCapturing, handleKeyUp never)
V2Deps(cap, rec, tab, idx) == <<cap, rec, tab, idx>>

V2DepsChanged(cap, rec, tab, idx) ==
  V2Deps(cap, rec, tab, idx) # V2Deps(isCapturing, isRecording, activeTab, editingIndex)

\* A render with the given state: the ref-updating effects, and the listener
\* effect when a dependency changed (cleanup of the previous run, then the
\* new run). tm: the pending timers as the handler left them.
V2Render(cap, rec, tab, idx, tm) ==
  /\ isCapturing' = cap
  /\ isRecording' = rec
  /\ activeTab' = tab
  /\ editingIndex' = idx
  /\ activeTabRef' = tab
  /\ isRecordingRef' = rec
  /\ IF V2DepsChanged(cap, rec, tab, idx)
       THEN /\ listeners' =
                 Detach(listeners,
                        V2ListenCond(isCapturing, isRecording, activeTab, editingIndex))
                 + (IF V2ListenCond(cap, rec, tab, idx) THEN 1 ELSE 0)
            /\ timers' = CleanupTimers(tm, debounceTimeout)
            /\ modifierKeys' = <<>>
            /\ regularKeys' = <<>>
       ELSE /\ listeners' = listeners
            /\ timers' = tm
            /\ UNCHANGED <<modifierKeys, regularKeys>>

\* what the observers see of a render caused by a handler other than a key
\* event or the debounce callback
V2ObserveRender(op, cap, rec, tab, idx) ==
  IF V2DepsChanged(cap, rec, tab, idx)
    THEN /\ lastDown' = ""
         /\ lastSettled' = ""
         /\ dropped' = Cancelled(op, timers, debounceTimeout)
    ELSE /\ UNCHANGED <<lastDown, lastSettled>>
         /\ dropped' = NoEvent

V2_handleKeyDown(key, repeat) ==
  /\ variant = "v2"
  /\ listeners > 0
  /\ activeTabRef = "record" => Len(sequence) < MaxSeq
  /\ UNCHANGED <<propVars, stateVars, activeTabRef, isRecordingRef, tabsValue,
                 listeners, recLog, tabChanged, jsonVars, appVars>>
  /\ submitted' = NoSubmit
  /\ lastInput' = KeyEvent("keydown", key, repeat, modifierKeys, regularKeys)
  /\ IF IgnoreRepeat(repeat)
       THEN UNCHANGED <<debounceTimeout, modifierKeys, regularKeys, timers,
                       lastCommit, before, lastDown, lastSettled, dropped>>
       ELSE /\ lastCommit' = NONE
            /\ before' = Null
            /\ modifierKeys' = IF isModifierKey(key) THEN SetAdd(modifierKeys, key)
                                                     ELSE modifierKeys
            /\ regularKeys' = IF isModifierKey(key) THEN regularKeys
                                                    ELSE SetAdd(regularKeys, key)
            /\ lastDown' = KeyCombination(modifierKeys', regularKeys')
            /\ IF OnlyModifiers(modifierKeys', regularKeys')
                 THEN \* only modifiers are pressed: return
                      /\ dropped' = NoEvent
                      /\ UNCHANGED <<debounceTimeout, timers, lastSettled>>
                 ELSE LET keyCombination == KeyCombination(modifierKeys', regularKeys')
                          tm == ClearPending(timers, debounceTimeout)
                          id == NewTimerId(tm)
                      IN  /\ timers' = tm \cup {[id |-> id, combo |-> keyCombination]}
                          /\ debounceTimeout' = id
                          /\ lastSettled' = lastDown'
                          /\ dropped' = Cancelled("keyDown", timers, debounceTimeout)
  /\ selectedStep' = StillSelected(selectedStep, editingIndex')

V2_handleKeyUp(key) ==
  /\ variant = "v2"
  /\ listeners > 0
  /\ modifierKeys' = IF isModifierKey(key) THEN SetDelete(modifierKeys, key)
                                           ELSE modifierKeys
  /\ regularKeys' = IF isModifierKey(key) THEN regularKeys
                                          ELSE SetDelete(regularKeys, key)
  /\ UNCHANGED <<propVars, stateVars, debounceTimeout, activeTabRef, isRecordingRef,
                 envVars, lastCommit, before, dropped, lastDown, lastSettled, recLog,
                 tabChanged, jsonVars, appVars>>
  /\ submitted' = NoSubmit
  /\ lastInput' = KeyEvent("keyup", key, FALSE, modifierKeys, regularKeys)
  /\ selectedStep' = StillSelected(selectedStep, editingIndex')

\* the callback handleKeyDown passed to window.setTimeout, run at expiry
V2_debounceCallback(t) ==
  /\ variant = "v2"
  /\ t \in timers
  /\ UNCHANGED <<propVars, editedStroke, debounceTimeout, tabsValue, dropped, lastDown,
                 lastSettled, tabChanged, jsonVars, appVars>>
  /\ submitted' = NoSubmit
  /\ lastInput' = NoInput
  /\ IF activeTabRef = "shortcut"
       THEN /\ sequence' = ShortcutCommit(sequence, t.combo)
            /\ name' = t.combo
            /\ V2Render(CaptureAfterCommit, isRecording, activeTab, editingIndex, timers \ {t})
            /\ lastCommit' = t.combo
            /\ before' = [sequence |-> sequence, name |-> name]
            /\ UNCHANGED recLog
     ELSE IF activeTabRef = "record" /\ isRecordingRef
       THEN /\ sequence' = RecordCommit(sequence, t.combo)
            /\ V2Render(isCapturing, isRecording, activeTab, editingIndex, timers \ {t})
            /\ lastCommit' = t.combo
            /\ before' = [sequence |-> sequence, name |-> name]
            /\ recLog' = Append(recLog, t.combo)
            /\ UNCHANGED name
     ELSE /\ V2Render(isCapturing, isRecording, activeTab, editingIndex, timers \ {t})
          /\ UNCHANGED <<name, sequence, lastCommit, before, recLog>>
  /\ selectedStep' = StillSelected(selectedStep, editingIndex')

\* Tabs.onValueChange: the widget reports a value other than the one it shows
V2_onValueChange(value) ==
  /\ variant = "v2"
  /\ mounted /\ isOpen
  /\ value # tabsValue
  /\ tabsValue' = value
  /\ sequence' = <<>>
  /\ V2Render(value = "shortcut", FALSE, value, NoIndex, timers)
  /\ V2ObserveRender("tabChange", value = "shortcut", FALSE, value, NoIndex)
  /\ lastCommit' = NONE
  /\ before' = Null
  /\ recLog' = <<>>
  /\ tabChanged' = TRUE
  /\ UNCHANGED <<propVars, name, editedStroke, debounceTimeout, jsonVars, appVars>>
  /\ submitted' = NoSubmit
  /\ lastInput' = NoInput
  /\ selectedStep' = StillSelected(selectedStep, editingIndex')

\* the content of the record tab is on screen
RecordTabShown == mounted /\ isOpen /\ tabsValue = "record"

\* the row of step index (0-based) exists
IsRow(index) == index >= 0 /\ index < Len(sequence)

V2_handleStartRecording ==
  /\ variant = "v2"
  /\ RecordTabShown /\ ~isRecording
  /\ sequence' = <<>>
  /\ V2Render(isCapturing, TRUE, activeTab, NoIndex, timers)
  /\ V2ObserveRender("startRecording", isCapturing, TRUE, activeTab, NoIndex)
  /\ lastCommit' = NONE
  /\ before' = Null
  /\ recLog' = <<>>
  /\ UNCHANGED <<propVars, name, editedStroke, debounceTimeout, tabsValue,
                 tabChanged, jsonVars, appVars>>
  /\ submitted' = NoSubmit
  /\ lastInput' = NoInput
  /\ selectedStep' = StillSelected(selectedStep, editingIndex')

V2_handleStopRecording ==
  /\ variant = "v2"
  /\ RecordTabShown /\ isRecording
  /\ V2Render(isCapturing, FALSE, activeTab, NoIndex, timers)
  /\ V2ObserveRender("stopRecording", isCapturing, FALSE, activeTab, NoIndex)
  /\ lastCommit' = NONE
  /\ before' = Null
  /\ recLog' = <<>>
  /\ UNCHANGED <<propVars, name, sequence, editedStroke, debounceTimeout, tabsValue,
                 tabChanged, jsonVars, appVars>>
  /\ submitted' = NoSubmit
  /\ lastInput' = StopEvent(timers)
  /\ selectedStep' = StillSelected(selectedStep, editingIndex')

\* onChange of the name field of the record tab
V2_setName(v) ==
  /\ variant = "v2"
  /\ RecordTabShown
  /\ name' = v
  /\ V2Render(isCapturing, isRecording, activeTab, editingIndex, timers)
  /\ V2ObserveRender("setName", isCapturing, isRecording, activeTab, editingIndex)
  /\ lastCommit' = NONE
  /\ before' = Null
  /\ UNCHANGED <<propVars, sequence, editedStroke, debounceTimeout, tabsValue,
                 recLog, tabChanged, jsonVars, appVars>>
  /\ submitted' = NoSubmit
  /\ lastInput' = NoInput
  /\ selectedStep' = StillSelected(selectedStep, editingIndex')

\* the edit button of a row: rendered when not recording, on rows not in edit
V2_handleEditStroke(index) ==
  /\ variant = "v2"
  /\ RecordTabShown /\ ~isRecording
  /\ IsRow(index) /\ editingIndex # index
  /\ editedStroke' = sequence[index + 1]
  /\ V2Render(isCapturing, isRecording, activeTab, index, timers)
  /\ V2ObserveRender("editStroke", isCapturing, isRecording, activeTab, index)
  /\ lastCommit' = NONE
  /\ before' = Null
  /\ UNCHANGED <<propVars, name, sequence, debounceTimeout, tabsValue,
                 recLog, tabChanged, jsonVars, appVars>>
  /\ submitted' = NoSubmit
  /\ lastInput' = RowEvent("editStroke", index, editedStroke, sequence)
  /\ selectedStep' = index

\* onChange of the edit field of the row in edit
V2_setEditedStroke(v) ==
  /\ variant = "v2"
  /\ RecordTabShown /\ IsRow(editingIndex)
  /\ editedStroke' = v
  /\ V2Render(isCapturing, isRecording, activeTab, editingIndex, timers)
  /\ V2ObserveRender("setEditedStroke", isCapturing, isRecording, activeTab, editingIndex)
  /\ lastCommit' = NONE
  /\ before' = Null
  /\ UNCHANGED <<propVars, name, sequence, debounceTimeout, tabsValue,
                 recLog, tabChanged, jsonVars, appVars>>
  /\ submitted' = NoSubmit
  /\ lastInput' = NoInput
  /\ selectedStep' = StillSelected(selectedStep, editingIndex')

\* faulty variant: every step takes the edited text
ReplaceAt_All(seq, index, v) == [i \in 1..Len(seq) |-> v]

\* prevSequence.map((item, idx) => idx === editingIndex ? editedStroke : item)
ReplaceAt(seq, index, v) ==
  [i \in 1..Len(seq) |-> IF i - 1 = index THEN v ELSE seq[i]]

V2_handleConfirmEdit ==
  /\ variant = "v2"
  /\ RecordTabShown /\ IsRow(editingIndex)
  /\ sequence' = IF editingIndex # NoIndex
                   THEN ReplaceAt(sequence, editingIndex, editedStroke)
                   ELSE sequence
  /\ editedStroke' = ""
  /\ V2Render(isCapturing, isRecording, activeTab, NoIndex, timers)
  /\ V2ObserveRender("confirmEdit", isCapturing, isRecording, activeTab, NoIndex)
  /\ lastCommit' = NONE
  /\ before' = Null
  /\ UNCHANGED <<propVars, name, debounceTimeout, tabsValue, recLog, tabChanged,
                 jsonVars, appVars>>
  /\ submitted' = NoSubmit
  /\ lastInput' = RowEvent("confirmEdit", editingIndex, editedStroke, sequence)
  /\ selectedStep' = StillSelected(selectedStep, editingIndex')

V2_handleCancelEdit ==
  /\ variant = "v2"
  /\ RecordTabShown /\ IsRow(editingIndex)
  /\ editedStroke' = ""
  /\ V2Render(isCapturing, isRecording, activeTab, NoIndex, timers)
  /\ V2ObserveRender("cancelEdit", isCapturing, isRecording, activeTab, NoIndex)
  /\ lastCommit' = NONE
  /\ before' = Null
  /\ UNCHANGED <<propVars, name, sequence, debounceTimeout, tabsValue,
                 recLog, tabChanged, jsonVars, appVars>>
  /\ submitted' = NoSubmit
  /\ lastInput' = RowEvent("cancelEdit", editingIndex, editedStroke, sequence)
  /\ selectedStep' = StillSelected(selectedStep, editingIndex')

\* faulty variant: the last step is removed
DeleteAt_Last(seq, index) == IF Len(seq) = 0 THEN seq ELSE SubSeq(seq, 1, Len(seq) - 1)

\* prevSequence.filter((_, i) => i !== index)
DeleteAt(seq, index) ==
  LET keep == { i \in 1..Len(seq) : i - 1 # index }
      F[i \in 0..Len(seq)] ==
        IF i = 0 THEN <<>>
        ELSE IF i \in keep THEN Append(F[i - 1], seq[i]) ELSE F[i - 1]
  IN  F[Len(seq)]

\* the delete button of a row: rendered when not recording, on rows not in edit
V2_handleDeleteCombination(index) ==
  /\ variant = "v2"
  /\ RecordTabShown /\ ~isRecording
  /\ IsRow(index) /\ editingIndex # index
  /\ sequence' = DeleteAt(sequence, index)
  /\ V2Render(isCapturing, isRecording, activeTab, editingIndex, timers)
  /\ V2ObserveRender("deleteCombination", isCapturing, isRecording, activeTab, editingIndex)
  /\ lastCommit' = NONE
  /\ before' = Null
  /\ UNCHANGED <<propVars, name, editedStroke, debounceTimeout, tabsValue,
                 recLog, tabChanged, jsonVars, appVars>>
  /\ submitted' = NoSubmit
  /\ lastInput' = RowEvent("deleteCombination", index, editedStroke, sequence)
  /\ selectedStep' = SelectedAfterDelete(selectedStep, index)

\* openForm of the add form: App sets isAddingShortcut; the dialog content,
\* and with it the Tabs widget (defaultValue "shortcut"), is mounted anew
V2_openForm ==
  /\ variant = "v2"
  /\ mounted /\ ~isOpen /\ existingShortcut = Null
  /\ isOpen' = TRUE
  /\ tabsValue' = "shortcut"
  /\ dropped' = NoEvent
  /\ UNCHANGED <<variant, mounted, existingShortcut, stateVars, refVars, timers,
                 listeners, lastCommit, before, lastDown, lastSettled, recLog,
                 tabChanged, jsonVars, appVars>>
  /\ submitted' = NoSubmit
  /\ lastInput' = NoInput
  /\ selectedStep' = StillSelected(selectedStep, editingIndex')

\* onClose (Cancel, dialog dismissed, or App after a save): the add form stays
\* mounted with isOpen false; the edit form is unmounted, which runs the
\* cleanup of the listener effect
V2_onClose ==
  /\ variant = "v2"
  /\ mounted /\ isOpen
  /\ isOpen' = FALSE
  /\ UNCHANGED <<variant, existingShortcut, stateVars, debounceTimeout, activeTabRef,
                 isRecordingRef, tabsValue, recLog, tabChanged, jsonVars, appVars>>
  /\ submitted' = NoSubmit
  /\ lastInput' = NoInput
  /\ IF existingShortcut = Null
       THEN /\ dropped' = NoEvent
            /\ UNCHANGED <<mounted, modifierKeys, regularKeys, timers, listeners,
                           lastDown, lastSettled, lastCommit, before>>
       ELSE /\ mounted' = FALSE
            /\ listeners' =
                 Detach(listeners,
                        V2ListenCond(isCapturing, isRecording, activeTab, editingIndex))
            /\ timers' = CleanupTimers(timers, debounceTimeout)
            /\ modifierKeys' = <<>>
            /\ regularKeys' = <<>>
            /\ lastDown' = ""
            /\ lastSettled' = ""
            /\ lastCommit' = NONE
            /\ before' = Null
            /\ dropped' = Cancelled("close", timers, debounceTimeout)
  /\ selectedStep' = StillSelected(selectedStep, editingIndex')

\* handleSubmit: hands the candidate of the active tab to onSave, or sets the
\* error line of the JSON editor
V2_handleSubmit ==
  /\ variant = "v2"
  /\ mounted /\ isOpen
  /\ LET json == SubmitJson(existingShortcut, jsonInput)
         shortcut ==
           CASE activeTab = "shortcut" -> SubmitShortcut(existingShortcut, sequence, name)
             [] activeTab = "record" ->
                  SubmitRecord(existingShortcut, sequence, name, FALSE)
             [] OTHER -> json.shortcut
     IN  /\ jsonError' = IF activeTab = "json" /\ json.error # "kept"
                           THEN json.error ELSE jsonError
         /\ submitted' = Submit(activeTab, jsonInput, shortcut)
         /\ lastInput' = NoInput
  /\ lastCommit' = NONE
  /\ before' = Null
  /\ dropped' = NoEvent
  /\ UNCHANGED <<propVars, stateVars, refVars, envVars, lastDown, lastSettled, recLog,
                 tabChanged, jsonInput, appVars>>
  /\ selectedStep' = StillSelected(selectedStep, editingIndex')

\* handleJsonChange: the text area of the json tab
V2_handleJsonChange(text) ==
  /\ variant = "v2"
  /\ mounted /\ isOpen /\ tabsValue = "json"
  /\ jsonInput' = text
  /\ jsonError' = ""
  /\ submitted' = NoSubmit
  /\ lastInput' = NoInput
  /\ lastCommit' = NONE
  /\ before' = Null
  /\ dropped' = NoEvent
  /\ UNCHANGED <<propVars, stateVars, refVars, envVars, lastDown, lastSettled, recLog,
                 tabChanged, appVars>>
  /\ selectedStep' = StillSelected(selectedStep, editingIndex')

NextV2 ==
  \/ \E key \in Keys, repeat \in BOOLEAN : V2_handleKeyDown(key, repeat)
  \/ \E key \in Keys : V2_handleKeyUp(key)
  \/ \E t \in timers : V2_debounceCallback(t)
  \/ \E value \in TabValues : V2_onValueChange(value)
  \/ V2_handleStartRecording
  \/ V2_handleStopRecording
  \/ \E v \in NameInputs : V2_setName(v)
  \/ \E index \in 0..(MaxSeq - 1) : V2_handleEditStroke(index)
  \/ \E v \in StrokeInputs : V2_setEditedStroke(v)
  \/ V2_handleConfirmEdit
  \/ V2_handleCancelEdit
  \/ \E index \in 0..(MaxSeq - 1) : V2_handleDeleteCombination(index)
  \/ V2_handleSubmit
  \/ V2_openForm
  \/ V2_onClose

\* the v2 form as constructed, in an App at rest
InitV2 == FormInit /\ variant = "v2" /\ AppIdle

SpecV2 == InitV2 /\ [][NextV2]_vars

----------------------------------------------------------------------------
(* Variant v1: src/src/components/AddShortcutForm.tsx *)

\* the dependency list of the listener effect
V1Deps(cap, rec, open, tab) == <<cap, rec, open, tab>>

V1DepsChanged(cap, rec, open, tab) ==
  V1Deps(cap, rec, open, tab) # V1Deps(isCapturing, isRecording, isOpen, activeTab)

\* first statement of the listener effect:
\* if (isOpen && activeTab === "shortcut") setIsCapturing(true)
V1Arm(cap, open, tab) == IF open /\ tab = "shortcut" THEN TRUE ELSE cap

\* A render with the given state and prop. When a dependency changed the
\* listener effect runs: cleanup of the previous run, then the new run, which
\* may set isCapturing and so cause one more render and run. The held-key
\* sets are locals of the effect: every run starts with empty ones.
V1Render(cap, rec, open, tab, tm) ==
  /\ isRecording' = rec
  /\ isOpen' = open
  /\ activeTab' = tab
  /\ UNCHANGED <<activeTabRef, isRecordingRef>>
  /\ IF V1DepsChanged(cap, rec, open, tab)
       THEN /\ isCapturing' = V1Arm(cap, open, tab)
            /\ listeners' =
                 Detach(listeners, V1ListenCond(isCapturing, isRecording, activeTab))
                 + (IF V1ListenCond(V1Arm(cap, open, tab), rec, tab) THEN 1 ELSE 0)
            /\ timers' = CleanupTimers(tm, debounceTimeout)
            /\ modifierKeys' = <<>>
            /\ regularKeys' = <<>>
       ELSE /\ isCapturing' = cap
            /\ listeners' = listeners
            /\ timers' = tm
            /\ UNCHANGED <<modifierKeys, regularKeys>>

V1ObserveRender(op, cap, rec, open, tab) ==
  IF V1DepsChanged(cap, rec, open, tab)
    THEN /\ lastDown' = ""
         /\ lastSettled' = ""
         /\ dropped' = Cancelled(op, timers, debounceTimeout)
    ELSE /\ UNCHANGED <<lastDown, lastSettled>>
         /\ dropped' = NoEvent

V1_handleKeyDown(key, repeat) ==
  /\ variant = "v1"
  /\ listeners > 0
  /\ activeTab = "record" => Len(sequence) < MaxSeq
  /\ UNCHANGED <<propVars, stateVars, activeTabRef, isRecordingRef, tabsValue,
                 listeners, recLog, tabChanged, jsonVars, appVars>>
  /\ submitted' = NoSubmit
  /\ lastInput' = KeyEvent("keydown", key, repeat, modifierKeys, regularKeys)
  /\ IF IgnoreRepeat(repeat)
       THEN UNCHANGED <<debounceTimeout, modifierKeys, regularKeys, timers,
                       lastCommit, before, lastDown, lastSettled, dropped>>
       ELSE /\ lastCommit' = NONE
            /\ before' = Null
            /\ modifierKeys' = IF isModifierKey(key) THEN SetAdd(modifierKeys, key)
                                                     ELSE modifierKeys
            /\ regularKeys' = IF isModifierKey(key) THEN regularKeys
                                                    ELSE SetAdd(regularKeys, key)
            /\ lastDown' = KeyCombination(modifierKeys', regularKeys')
            /\ IF OnlyModifiers(modifierKeys', regularKeys')
                 THEN \* only modifiers are pressed: return
                      /\ dropped' = NoEvent
                      /\ UNCHANGED <<debounceTimeout, timers, lastSettled>>
                 ELSE LET keyCombination == KeyCombination(modifierKeys', regularKeys')
                          tm == ClearPending(timers, debounceTimeout)
                          id == NewTimerId(tm)
                      IN  \* the callback closes over activeTab and isRecording
                          /\ timers' = tm \cup {[id |-> id, combo |-> keyCombination,
                                                 activeTab |-> activeTab,
                                                 isRecording |-> isRecording]}
                          /\ debounceTimeout' = id
                          /\ lastSettled' = lastDown'
                          /\ dropped' = Cancelled("keyDown", timers, debounceTimeout)
  /\ selectedStep' = StillSelected(selectedStep, editingIndex')

V1_handleKeyUp(key) ==
  /\ variant = "v1"
  /\ listeners > 0
  /\ modifierKeys' = IF isModifierKey(key) THEN SetDelete(modifierKeys, key)
                                           ELSE modifierKeys
  /\ regularKeys' = IF isModifierKey(key) THEN regularKeys
                                          ELSE SetDelete(regularKeys, key)
  /\ UNCHANGED <<propVars, stateVars, debounceTimeout, activeTabRef, isRecordingRef,
                 envVars, lastCommit, before, dropped, lastDown, lastSettled, recLog,
                 tabChanged, jsonVars, appVars>>
  /\ submitted' = NoSubmit
  /\ lastInput' = KeyEvent("keyup", key, FALSE, modifierKeys, regularKeys)
  /\ selectedStep' = StillSelected(selectedStep, editingIndex')

\* the callback handleKeyDown passed to window.setTimeout, run at expiry
V1_debounceCallback(t) ==
  /\ variant = "v1"
  /\ t \in timers
  /\ UNCHANGED <<variant, mounted, existingShortcut, editingIndex, editedStroke,
                 debounceTimeout, tabsValue, dropped, lastDown, lastSettled, tabChanged,
                 jsonVars, appVars>>
  /\ submitted' = NoSubmit
  /\ lastInput' = NoInput
  /\ IF t.activeTab = "shortcut"
       THEN /\ sequence' = ShortcutCommit(sequence, t.combo)
            /\ name' = t.combo
            /\ V1Render(CaptureAfterCommit, isRecording, isOpen, activeTab, timers \ {t})
            /\ lastCommit' = t.combo
            /\ before' = [sequence |-> sequence, name |-> name]
            /\ UNCHANGED recLog
     ELSE IF t.activeTab = "record" /\ t.isRecording
       THEN /\ sequence' = RecordCommit(sequence, t.combo)
            /\ V1Render(isCapturing, isRecording, isOpen, activeTab, timers \ {t})
            /\ lastCommit' = t.combo
            /\ before' = [sequence |-> sequence, name |-> name]
            /\ UNCHANGED <<name, recLog>>
     ELSE /\ V1Render(isCapturing, isRecording, isOpen, activeTab, timers \ {t})
          /\ UNCHANGED <<name, sequence, lastCommit, before, recLog>>
  /\ selectedStep' = StillSelected(selectedStep, editingIndex')

\* the click listener on document, attached together with the key listeners
V1_handleClickOutside ==
  /\ variant = "v1"
  /\ listeners > 0
  /\ V1Render(FALSE, isRecording, isOpen, activeTab, timers)
  /\ V1ObserveRender("clickOutside", FALSE, isRecording, isOpen, activeTab)
  /\ UNCHANGED <<variant, mounted, existingShortcut, name, sequence, editingIndex,
                 editedStroke, debounceTimeout, tabsValue, recLog, tabChanged,
                 jsonVars, appVars>>
  /\ submitted' = NoSubmit
  /\ lastInput' = NoInput
  /\ lastCommit' = NONE
  /\ before' = Null
  /\ selectedStep' = StillSelected(selectedStep, editingIndex')

\* Tabs.onValueChange: the widget reports a value other than the one it shows
V1_onValueChange(value) ==
  /\ variant = "v1"
  /\ mounted /\ isOpen
  /\ value # tabsValue
  /\ tabsValue' = value
  /\ V1Render(value = "shortcut", FALSE, isOpen, value, timers)
  /\ V1ObserveRender("tabChange", value = "shortcut", FALSE, isOpen, value)
  /\ lastCommit' = NONE
  /\ before' = Null
  /\ UNCHANGED recLog
  /\ tabChanged' = TRUE
  /\ UNCHANGED <<variant, mounted, existingShortcut, name, sequence, editingIndex,
                 editedStroke, debounceTimeout, jsonVars, appVars>>
  /\ submitted' = NoSubmit
  /\ lastInput' = NoInput
  /\ selectedStep' = StillSelected(selectedStep, editingIndex')

V1_handleStartRecording ==
  /\ variant = "v1"
  /\ RecordTabShown /\ ~isRecording
  /\ sequence' = <<>>
  /\ V1Render(isCapturing, TRUE, isOpen, activeTab, timers)
  /\ V1ObserveRender("startRecording", isCapturing, TRUE, isOpen, activeTab)
  /\ lastCommit' = NONE
  /\ before' = Null
  /\ UNCHANGED recLog
  /\ UNCHANGED <<variant, mounted, existingShortcut, name, editingIndex,
                 editedStroke, debounceTimeout, tabsValue, tabChanged, jsonVars, appVars>>
  /\ submitted' = NoSubmit
  /\ lastInput' = NoInput
  /\ selectedStep' = StillSelected(selectedStep, editingIndex')

V1_handleStopRecording ==
  /\ variant = "v1"
  /\ RecordTabShown /\ isRecording
  /\ V1Render(isCapturing, FALSE, isOpen, activeTab, timers)
  /\ V1ObserveRender("stopRecording", isCapturing, FALSE, isOpen, activeTab)
  /\ lastCommit' = NONE
  /\ before' = Null
  /\ UNCHANGED recLog
  /\ UNCHANGED <<variant, mounted, existingShortcut, name, sequence, editingIndex,
                 editedStroke, debounceTimeout, tabsValue, tabChanged, jsonVars, appVars>>
  /\ submitted' = NoSubmit
  /\ lastInput' = StopEvent(timers)
  /\ selectedStep' = StillSelected(selectedStep, editingIndex')

\* onChange of the name field of the record tab
V1_setName(v) ==
  /\ variant = "v1"
  /\ RecordTabShown
  /\ name' = v
  /\ V1Render(isCapturing, isRecording, isOpen, activeTab, timers)
  /\ V1ObserveRender("setName", isCapturing, isRecording, isOpen, activeTab)
  /\ lastCommit' = NONE
  /\ before' = Null
  /\ UNCHANGED <<variant, mounted, existingShortcut, sequence, editingIndex,
                 editedStroke, debounceTimeout, tabsValue, recLog, tabChanged,
                 jsonVars, appVars>>
  /\ submitted' = NoSubmit
  /\ lastInput' = NoInput
  /\ selectedStep' = StillSelected(selectedStep, editingIndex')

\* the delete button of a row of the record tab (rendered on every row)
V1_handleDeleteCombination(index) ==
  /\ variant = "v1"
  /\ RecordTabShown
  /\ IsRow(index)
  /\ sequence' = DeleteAt(sequence, index)
  /\ V1Render(isCapturing, isRecording, isOpen, activeTab, timers)
  /\ V1ObserveRender("deleteCombination", isCapturing, isRecording, isOpen, activeTab)
  /\ lastCommit' = NONE
  /\ before' = Null
  /\ UNCHANGED <<variant, mounted, existingShortcut, name, editingIndex,
                 editedStroke, debounceTimeout, tabsValue, recLog, tabChanged,
                 jsonVars, appVars>>
  /\ submitted' = NoSubmit
  /\ lastInput' = RowEvent("deleteCombination", index, editedStroke, sequence)
  /\ selectedStep' = StillSelected(selectedStep, editingIndex')

\* openForm of the add form (isOpen is a dependency of the listener effect)
V1_openForm ==
  /\ variant = "v1"
  /\ mounted /\ ~isOpen /\ existingShortcut = Null
  /\ tabsValue' = "shortcut"
  /\ V1Render(isCapturing, isRecording, TRUE, activeTab, timers)
  /\ V1ObserveRender("openForm", isCapturing, isRecording, TRUE, activeTab)
  /\ UNCHANGED <<variant, mounted, existingShortcut, name, sequence, editingIndex,
                 editedStroke, debounceTimeout, recLog, tabChanged, jsonVars, appVars>>
  /\ submitted' = NoSubmit
  /\ lastInput' = NoInput
  /\ lastCommit' = NONE
  /\ before' = Null
  /\ selectedStep' = StillSelected(selectedStep, editingIndex')

\* what onClose does to the form: the add form stays mounted with isOpen
\* false; the edit form is unmounted, which runs the cleanup of the listener
\* effect
V1Close ==
  /\ UNCHANGED <<variant, existingShortcut, name, sequence, editingIndex,
                 editedStroke, debounceTimeout, tabsValue, recLog, tabChanged>>
  /\ lastCommit' = NONE
  /\ before' = Null
  /\ IF existingShortcut = Null
       THEN /\ V1Render(isCapturing, isRecording, FALSE, activeTab, timers)
            /\ V1ObserveRender("close", isCapturing, isRecording, FALSE, activeTab)
            /\ UNCHANGED mounted
       ELSE /\ mounted' = FALSE
            /\ isOpen' = FALSE
            /\ listeners' =
                 Detach(listeners, V1ListenCond(isCapturing, isRecording, activeTab))
            /\ timers' = CleanupTimers(timers, debounceTimeout)
            /\ modifierKeys' = <<>>
            /\ regularKeys' = <<>>
            /\ lastDown' = ""
            /\ lastSettled' = ""
            /\ dropped' = Cancelled("close", timers, debounceTimeout)
            /\ UNCHANGED <<isCapturing, isRecording, activeTab, activeTabRef,
                           isRecordingRef>>

\* onClose (Cancel, or the dialog dismissed)
V1_onClose ==
  /\ variant = "v1"
  /\ mounted /\ isOpen
  /\ V1Close
  /\ submitted' = NoSubmit
  /\ lastInput' = NoInput
  /\ UNCHANGED <<jsonVars, appVars>>
  /\ selectedStep' = StillSelected(selectedStep, editingIndex')

\* handleSubmit: hands the candidate of the active tab to onSave and closes
\* the form, or sets the error line of the JSON editor
V1_handleSubmit ==
  /\ variant = "v1"
  /\ mounted /\ isOpen
  /\ LET json == SubmitJson(existingShortcut, jsonInput)
         shortcut ==
           CASE activeTab = "shortcut" -> SubmitShortcut(existingShortcut, sequence, name)
             [] activeTab = "record" ->
                  SubmitRecord(existingShortcut, sequence, name, TRUE)
             [] OTHER -> json.shortcut
     IN  /\ jsonError' = IF activeTab = "json" /\ json.error # "kept"
                           THEN json.error ELSE jsonError
         /\ submitted' = Submit(activeTab, jsonInput, shortcut)
         /\ lastInput' = NoInput
         /\ IF shortcut.t # "undefined"
              THEN V1Close
              ELSE /\ lastCommit' = NONE
                   /\ before' = Null
                   /\ dropped' = NoEvent
                   /\ UNCHANGED <<propVars, stateVars, refVars, envVars, lastDown,
                                  lastSettled, recLog, tabChanged>>
  /\ UNCHANGED <<jsonInput, appVars>>
  /\ selectedStep' = StillSelected(selectedStep, editingIndex')

\* handleJsonChange: the text area of the json tab
V1_handleJsonChange(text) ==
  /\ variant = "v1"
  /\ mounted /\ isOpen /\ tabsValue = "json"
  /\ jsonInput' = text
  /\ jsonError' = ""
  /\ submitted' = NoSubmit
  /\ lastInput' = NoInput
  /\ lastCommit' = NONE
  /\ before' = Null
  /\ dropped' = NoEvent
  /\ UNCHANGED <<propVars, stateVars, refVars, envVars, lastDown, lastSettled, recLog,
                 tabChanged, appVars>>
  /\ selectedStep' = StillSelected(selectedStep, editingIndex')

NextV1 ==
  \/ \E key \in Keys, repeat \in BOOLEAN : V1_handleKeyDown(key, repeat)
  \/ \E key \in Keys : V1_handleKeyUp(key)
  \/ \E t \in timers : V1_debounceCallback(t)
  \/ V1_handleClickOutside
  \/ \E value \in TabValues : V1_onValueChange(value)
  \/ V1_handleStartRecording
  \/ V1_handleStopRecording
  \/ \E v \in NameInputs : V1_setName(v)
  \/ \E index \in 0..(MaxSeq - 1) : V1_handleDeleteCombination(index)
  \/ V1_handleSubmit
  \/ V1_openForm
  \/ V1_onClose

\* the v1 form as constructed, in an App at rest
InitV1 == FormInit /\ variant = "v1" /\ AppIdle

SpecV1 == InitV1 /\ [][NextV1]_vars

\* the form, whichever variant the build holds
Next == NextV1 \/ NextV2

\* either form as constructed, in an App at rest
Init == FormInit /\ AppIdle

Spec == Init /\ [][Next]_vars

----------------------------------------------------------------------------------------------------------------------------------------
(* The JSON editor of the form, both variants: the form's handlers without *)
(* the key events, with the text area, over a wider set of shortcuts.      *)

\* valid shortcuts: with or without id, with or without name
ValidShortcuts ==
  { [id |-> 1, name |-> "n", sequence |-> <<"Control+Up", "Up">>],
    [id |-> 1, sequence |-> <<"Control+Up", "Up">>],
    [name |-> "n", sequence |-> <<"Up">>],
    [sequence |-> <<"Up">>] }

NextJson ==
  \/ \E text \in JsonTexts : V2_handleJsonChange(text)
  \/ V2_handleSubmit
  \/ \E value \in TabValues : V2_onValueChange(value)
  \/ \E v \in NameInputs : V2_setName(v)
  \/ V2_handleStartRecording
  \/ V2_handleStopRecording
  \/ V2_openForm
  \/ V2_onClose
  \/ \E text \in JsonTexts : V1_handleJsonChange(text)
  \/ V1_handleSubmit
  \/ \E value \in TabValues : V1_onValueChange(value)
  \/ \E v \in NameInputs : V1_setName(v)
  \/ V1_handleStartRecording
  \/ V1_handleStopRecording
  \/ V1_openForm
  \/ V1_onClose

\* either form as constructed for one of the valid shortcuts, in an App at rest
InitJson == FormInitWith(ValidShortcuts) /\ AppIdle

SpecJson == InitJson /\ [][NextJson]_vars

----------------------------------------------------------------------------
(* The key handlers over a wider keyboard: two modifiers and two regular   *)
(* keys, first key-downs only (a repeated key-down returns at once), with  *)
(* the tabs to switch between and the timers to expire                     *)

\* most keys held down at once
MaxHeld == 3

\* event.key of the keys pressed
KeyboardKeys == {"Control", "Shift", " ", "ArrowLeft"}

\* the keyboard delivers a first key-down of a key not yet held only while
\* fewer than MaxHeld keys are held
CanHold(key) ==
  \/ \E i \in 1..Len(modifierKeys \o regularKeys) : (modifierKeys \o regularKeys)[i] = key
  \/ Len(modifierKeys) + Len(regularKeys) < MaxHeld

NextKeys ==
  \/ \E key \in KeyboardKeys : CanHold(key) /\ V2_handleKeyDown(key, FALSE)
  \/ \E key \in KeyboardKeys : V2_handleKeyUp(key)
  \/ \E t \in timers : V2_debounceCallback(t)
  \/ \E value \in TabValues : V2_onValueChange(value)
  \/ \E key \in KeyboardKeys : CanHold(key) /\ V1_handleKeyDown(key, FALSE)
  \/ \E key \in KeyboardKeys : V1_handleKeyUp(key)
  \/ \E t \in timers : V1_debounceCallback(t)
  \/ \E value \in TabValues : V1_onValueChange(value)

SpecKeys == Init /\ [][NextKeys]_vars

----------------------------------------------------------------------------
(* The step rows of the record tab of the current form, from the state the *)
(* add form is in once three steps have been recorded and recording has    *)
(* been stopped                                                            *)

\* rows of the record tab
MaxRows == 3

\* the steps recorded: ArrowUp; Control with ArrowUp; ArrowUp
RecordedSteps == <<"Up", "Control+Up", "Up">>

\* the add form on its record tab after open, tab change, start recording,
\* three commits and stop recording
RowsInit ==
  /\ variant = "v2"
  /\ mounted = TRUE
  /\ isOpen = TRUE
  /\ existingShortcut = Null
  /\ name = ""
  /\ sequence = RecordedSteps
  /\ isCapturing = FALSE
  /\ activeTab = "record"
  /\ isRecording = FALSE
  /\ editingIndex = NoIndex
  /\ editedStroke = ""
  /\ debounceTimeout = 1
  /\ modifierKeys = <<>>
  /\ regularKeys = <<>>
  /\ activeTabRef = "record"
  /\ isRecordingRef = FALSE
  /\ tabsValue = "record"
  /\ timers = {}
  /\ listeners = 0
  /\ lastCommit = NONE
  /\ before = Null
  /\ lastDown = ""
  /\ lastSettled = ""
  /\ recLog = <<>>
  /\ dropped = NoEvent
  /\ tabChanged = TRUE
  /\ jsonInput = <<>>
  /\ jsonError = ""
  /\ submitted = NoSubmit
  /\ lastInput = StopEvent({})
  /\ selectedStep = NoIndex

NextRows ==
  \/ \E index \in 0..(MaxRows - 1) : V2_handleEditStroke(index)
  \/ \E v \in StrokeInputs : V2_setEditedStroke(v)
  \/ V2_handleConfirmEdit
  \/ V2_handleCancelEdit
  \/ \E index \in 0..(MaxRows - 1) : V2_handleDeleteCombination(index)

InitRows == RowsInit /\ AppIdle

SpecRows == InitRows /\ [][NextRows]_vars

----------------
(* The App: src/unnamed/part_000, with the backing store behind invoke() *)

\* a field of a JS object is present
Has(o, f) == f \in DOMAIN o

\* a === b on the field f of two objects, an absent field reading undefined
FieldEq(a, b, f) ==
  /\ Has(a, f) <=> Has(b, f)
  /\ Has(a, f) => a[f] = b[f]

\* object spread { ...a, ...b }
Spread(a, b) ==
  [f \in DOMAIN a \cup DOMAIN b |-> IF f \in DOMAIN b THEN b[f] ELSE a[f]]

\* "shortcut.id" / "id" used as a condition
Truthy(o, f) == Has(o, f) /\ o[f] # 0

\* what the shortcut and record tabs hand to onSave: the sequence and name
\* of the form
CapturedInputs == { [sequence |-> <<"Up">>, name |-> "n"] }

\* objects typed into the JSON tab that handleSubmit accepts
JsonInputs == { [keys |-> "q", name |-> "n", sequence |-> <<"Control+Up", "Up">>] }

\* handleSubmit: the candidates a form hands to onSave, for the form's
\* existingShortcut (Null in the add form)
handleSubmit(existing) ==
  LET base == IF existing = Null THEN [name |-> "n"] ELSE existing
  IN  { Spread(base, captured) : captured \in CapturedInputs }
        \cup { Spread(base, parsedJson) : parsedJson \in JsonInputs }

\* shortcuts.some(existing => existing.keys === shortcut.keys
\*                           && existing.id !== shortcut.id)
Duplicate(list, shortcut) ==
  \E i \in 1..Len(list) :
     FieldEq(list[i], shortcut, "keys") /\ ~FieldEq(list[i], shortcut, "id")

\* the persistence commands as the backing store applies them
StoreApply(st, op, arg) ==
  CASE op = "add_shortcut"    -> Append(st, arg)
    [] op = "update_shortcut" ->
         [i \in 1..Len(st) |-> IF FieldEq(st[i], arg, "id") THEN arg ELSE st[i]]
    [] op = "delete_shortcut" ->
         SelectSeq(st, LAMBDA x : ~FieldEq(x, arg, "id"))
    [] OTHER -> st

\* an invoke() call in flight: the command, its argument, and the reply
\* once the backing store has answered
Request(op, arg) ==
  [op |-> op, arg |-> arg, phase |-> "sent", data |-> <<>>]

\* fetchShortcuts up to its await
FetchRequest == Request("get_shortcuts_command", Null)

\* the calls in flight form a multiset
Issue(calls, r) == calls (+) SetToBag({r})
Settle(calls, r) == calls (-) SetToBag({r})
Pending(calls) == BagToSet(calls)

\* faulty variant: after the failure the caller goes on to fetch the list
AfterFailure_Refetch(calls, r) == Issue(Settle(calls, r), FetchRequest)

\* the calls in flight once the call r has failed: the catch of its caller
\* logs the error and returns
AfterFailure(calls, r) == Settle(calls, r)

\* the App after its first render: the mount effect has called
\* fetchShortcuts
AppInit ==
  /\ shortcuts = <<>>
  /\ store = <<>>
  /\ editingShortcut = Null
  /\ isAddingShortcut = FALSE
  /\ inflight = SetToBag({FetchRequest})
  /\ lastSave = Null
  /\ clock = 1
  /\ lastFailure = Null

\* the App is exercised with the internal state of its forms left as
\* constructed: what a form hands to onSave is drawn from handleSubmit
FormFixed == FormInit /\ variant = "v2" /\ existingShortcut = Null

\* openForm of the add form
App_openForm ==
  /\ ~isAddingShortcut /\ editingShortcut = Null
  /\ isAddingShortcut' = TRUE
  /\ UNCHANGED <<formVars, shortcuts, store, editingShortcut, inflight, clock>>
  /\ lastSave' = Null
  /\ lastFailure' = Null

\* onClose of the add form
App_onCloseAdd ==
  /\ isAddingShortcut
  /\ isAddingShortcut' = FALSE
  /\ UNCHANGED <<formVars, shortcuts, store, editingShortcut, inflight, clock>>
  /\ lastSave' = Null
  /\ lastFailure' = Null

\* click on the card of a shortcut
App_cardClick(i) ==
  /\ ~isAddingShortcut /\ editingShortcut = Null
  /\ i \in 1..Len(shortcuts)
  /\ editingShortcut' = shortcuts[i]
  /\ UNCHANGED <<formVars, shortcuts, store, isAddingShortcut, inflight, clock>>
  /\ lastSave' = Null
  /\ lastFailure' = Null

\* onClose of the edit form
App_onCloseEdit ==
  /\ editingShortcut # Null
  /\ editingShortcut' = Null
  /\ UNCHANGED <<formVars, shortcuts, store, isAddingShortcut, inflight, clock>>
  /\ lastSave' = Null
  /\ lastFailure' = Null

\* addOrUpdateShortcut up to its first await, called by the form that is open
App_addOrUpdateShortcut(shortcut) ==
  /\ isAddingShortcut \/ editingShortcut # Null
  /\ shortcut \in handleSubmit(editingShortcut)
  /\ BagCardinality(inflight) < MaxInflight
  /\ LET duplicate == Duplicate(shortcuts, shortcut)
     IN  IF ~duplicate
           THEN IF Truthy(shortcut, "id")
                  THEN /\ inflight' = Issue(inflight, Request("update_shortcut", shortcut))
                       /\ lastSave' = [candidate |-> shortcut, known |-> shortcuts,
                                       call |-> "update_shortcut"]
                       /\ UNCHANGED <<editingShortcut, isAddingShortcut, clock>>
                  ELSE /\ clock <= MaxClock
                       /\ inflight' = Issue(inflight,
                                            Request("add_shortcut",
                                                    Spread(shortcut, [id |-> clock])))
                       /\ lastSave' = [candidate |-> shortcut, known |-> shortcuts,
                                       call |-> "add_shortcut"]
                       /\ clock' = clock + 1
                       /\ UNCHANGED <<editingShortcut, isAddingShortcut>>
           ELSE /\ editingShortcut' = Null
                /\ isAddingShortcut' = FALSE
                /\ inflight' = Issue(inflight, FetchRequest)
                /\ lastSave' = [candidate |-> shortcut, known |-> shortcuts,
                                call |-> "none"]
                /\ UNCHANGED clock
  /\ UNCHANGED <<formVars, shortcuts, store>>
  /\ lastFailure' = Null

\* deleteShortcut(editingShortcut.id) up to its first await
App_deleteShortcut ==
  /\ editingShortcut # Null
  /\ BagCardinality(inflight) < MaxInflight
  /\ IF Truthy(editingShortcut, "id")
       THEN /\ inflight' = Issue(inflight,
                                 Request("delete_shortcut", [id |-> editingShortcut.id]))
            /\ UNCHANGED editingShortcut
       ELSE /\ editingShortcut' = Null
            /\ inflight' = Issue(inflight, FetchRequest)
  /\ lastSave' = Null
  /\ lastFailure' = Null
  /\ UNCHANGED <<formVars, shortcuts, store, isAddingShortcut, clock>>

\* the backing store serves a call
Backend_resolve(r) ==
  /\ r \in Pending(inflight) /\ r.phase = "sent"
  /\ store' = StoreApply(store, r.op, r.arg)
  /\ inflight' = Issue(Settle(inflight, r),
                       [r EXCEPT !.phase = "ok",
                                 !.data = IF r.op = "get_shortcuts_command"
                                            THEN store ELSE <<>>])
  /\ lastSave' = Null
  /\ lastFailure' = Null
  /\ UNCHANGED <<formVars, shortcuts, editingShortcut, isAddingShortcut, clock>>

\* a call fails: the catch of its caller logs the error and changes nothing
Backend_reject(r) ==
  /\ r \in Pending(inflight) /\ r.phase = "sent"
  /\ inflight' = AfterFailure(inflight, r)
  /\ lastSave' = Null
  /\ lastFailure' = [op |-> r.op, arg |-> r.arg]
  /\ UNCHANGED <<formVars, shortcuts, store, editingShortcut, isAddingShortcut, clock>>

\* fetchShortcuts after its await: setShortcuts(data)
App_fetchShortcuts_resume(r) ==
  /\ r \in Pending(inflight) /\ r.phase = "ok" /\ r.op = "get_shortcuts_command"
  /\ shortcuts' = r.data
  /\ inflight' = Settle(inflight, r)
  /\ lastSave' = Null
  /\ lastFailure' = Null
  /\ UNCHANGED <<formVars, store, editingShortcut, isAddingShortcut, clock>>

\* addOrUpdateShortcut after its await: both forms are closed and the list
\* is fetched again
App_addOrUpdateShortcut_resume(r) ==
  /\ r \in Pending(inflight) /\ r.phase = "ok"
  /\ r.op \in {"add_shortcut", "update_shortcut"}
  /\ editingShortcut' = Null
  /\ isAddingShortcut' = FALSE
  /\ inflight' = Issue(Settle(inflight, r), FetchRequest)
  /\ lastSave' = Null
  /\ lastFailure' = Null
  /\ UNCHANGED <<formVars, shortcuts, store, clock>>

\* deleteShortcut after its await
App_deleteShortcut_resume(r) ==
  /\ r \in Pending(inflight) /\ r.phase = "ok" /\ r.op = "delete_shortcut"
  /\ editingShortcut' = Null
  /\ inflight' = Issue(Settle(inflight, r), FetchRequest)
  /\ lastSave' = Null
  /\ lastFailure' = Null
  /\ UNCHANGED <<formVars, shortcuts, store, isAddingShortcut, clock>>

NextApp ==
  \/ App_openForm
  \/ App_onCloseAdd
  \/ \E i \in 1..MaxClock : App_cardClick(i)
  \/ App_onCloseEdit
  \/ \E shortcut \in handleSubmit(editingShortcut) : App_addOrUpdateShortcut(shortcut)
  \/ App_deleteShortcut
  \/ \E r \in Pending(inflight) : Backend_resolve(r)
  \/ \E r \in Pending(inflight) : Backend_reject(r)
  \/ \E r \in Pending(inflight) : App_fetchShortcuts_resume(r)
  \/ \E r \in Pending(inflight) : App_addOrUpdateShortcut_resume(r)
  \/ \E r \in Pending(inflight) : App_deleteShortcut_resume(r)

\* the App after its first render, its forms as constructed
InitApp == FormFixed /\ AppInit

SpecApp == InitApp /\ [][NextApp]_vars

----------------------------------------------------------------------------
(* Properties of the capture engine *)

\* C1 as stated: every commit carries the combination of the held-key sets
\* at the last non-repeat key-down before it, and leaves no timer pending.
C1_CommitIsLastKeyDown ==
  lastCommit # NONE => lastCommit = lastDown /\ timers = {}

\* C1 (amended): debounce collapse. At most one timer is pending, it carries
\* the combination computed at the last non-repeat key-down at which a
\* regular key was held, and a commit delivers exactly that combination and
\* leaves no timer pending; a key-down with only modifiers held leaves the
\* pending timer and its value as they were.
C1_DebounceCollapse ==
  /\ Cardinality(timers) <= 1
  /\ \A t \in timers : t.combo = lastSettled
  /\ lastCommit # NONE => lastCommit = lastSettled /\ timers = {}

\* C1 witness: a key-down cancelled the timer of the previous key-down
\* ("Up"), and the one commit of the burst carried the settled combination.
C1_Witness ==
  /\ lastCommit = "Control+Up"
  /\ dropped = [op |-> "keyDown", combo |-> "Up"]
  /\ timers = {}

\* C2: while recording on the record tab, the sequence is exactly the list
\* of the commits delivered since recording was started, in commit order.
C2_RecordingAppends ==
  (activeTab = "record" /\ isRecording) => sequence = recLog

\* C2 witness: two different commits recorded in order, recording still on.
C2_Witness ==
  /\ activeTab = "record" /\ isRecording
  /\ Len(sequence) = 2 /\ sequence[1] # sequence[2]
  /\ lastCommit = sequence[2]

\* C3: after a commit on the shortcut tab the sequence is the one-element
\* list of the committed combination and the name is that combination.
C3_ShortcutCommitReplaces ==
  (lastCommit # NONE /\ activeTab = "shortcut") =>
     (sequence = <<lastCommit>> /\ name = lastCommit)

\* C3 witness: the commit replaced the multi-step sequence and the name
\* loaded from an existing shortcut.
C3_Witness ==
  /\ lastCommit # NONE /\ activeTab = "shortcut"
  /\ existingShortcut # Null
  /\ before = [sequence |-> existingShortcut.sequence, name |-> existingShortcut.name]
  /\ Len(before.sequence) > 1

\* C4: in variant v2, after a commit on the shortcut tab capture is off and
\* the listener is detached with no timer pending, and from then on no step
\* changes the sequence or the name or re-enables capture unless it is a tab
\* change.
C4_OneShot ==
  /\ [](( lastCommit # NONE /\ activeTab = "shortcut") =>
          (~isCapturing /\ listeners = 0 /\ timers = {}))
  /\ [][ (activeTab = "shortcut" /\ ~isCapturing /\ tabsValue' = tabsValue) =>
           (sequence' = sequence /\ name' = name /\ ~isCapturing' /\ listeners' = 0) ]_vars

\* C4 witness: a commit was captured on the shortcut tab of an open form.
C4_Witness ==
  /\ variant = "v2" /\ mounted /\ isOpen
  /\ lastCommit # NONE /\ activeTab = "shortcut" /\ sequence = <<lastCommit>>

\* C5 as stated, on an open form after a tab change: the listener is
\* attached exactly when the shortcut tab is active, or the record tab is
\* active and recording, and no step is being edited.
C5_AttachedIffTab ==
  (mounted /\ isOpen /\ tabChanged) =>
     (listeners > 0 <=> ((activeTab = "shortcut" \/ (activeTab = "record" /\ isRecording))
                     /\ editingIndex = NoIndex))

\* C5 (amended): listener wiring rule. Exactly one handler pair is attached
\* when the form is mounted and (capture is enabled on the shortcut tab, or
\* the record tab is recording) and no step is being edited; none otherwise.
C5_ListenerWiring ==
  listeners = IF mounted
                 /\ ((isCapturing /\ activeTab = "shortcut")
                      \/ (isRecording /\ activeTab = "record"))
                 /\ editingIndex = NoIndex
              THEN 1 ELSE 0

\* C5 witness: the shortcut tab is active with capture off after a one-shot
\* commit, and the listener is detached.
C5_Witness ==
  /\ mounted /\ isOpen /\ tabChanged
  /\ activeTab = "shortcut" /\ ~isCapturing /\ lastCommit # NONE /\ listeners = 0

\* C6: a form open on the default tab, before any tab change and any commit,
\* has capture enabled and the listener attached (so that the first
\* key-down of a regular key is committed).
C6_InitialCapture ==
  (variant = "v2" /\ mounted /\ isOpen /\ ~tabChanged /\ lastCommit = NONE) =>
     (isCapturing /\ listeners > 0)

\* C7: a closed or torn-down surface has no listener attached and no
\* debounce timer pending.
C7_ClosedDetached ==
  (~isOpen \/ ~mounted) => (listeners = 0 /\ timers = {})

\* C8: in variant v2 every tab change of an open form empties the sequence
\* and both held-key sets and leaves no debounce timer pending.
C8_TabChangeResets ==
  [][ (isOpen /\ tabsValue' # tabsValue) =>
        (sequence' = <<>> /\ modifierKeys' = <<>> /\ regularKeys' = <<>>
           /\ timers' = {}) ]_vars

\* C8 witness: a tab change cancelled a pending combination.
C8_Witness ==
  /\ dropped.op = "tabChange"
  /\ sequence = <<>> /\ timers = {}

\* C9: while a step is being edited the listener is detached, no timer is
\* pending and the held-key sets are empty.
C9_EditingSuspends ==
  editingIndex # NoIndex =>
     (listeners = 0 /\ timers = {} /\ modifierKeys = <<>> /\ regularKeys = <<>>)

\* C9 witness: a recorded step of an open form is in edit.
C9_Witness ==
  /\ mounted /\ isOpen /\ IsRow(editingIndex)
  /\ editedStroke = sequence[editingIndex + 1]

----------------------------------------------------------------------------
(* Properties of the App *)

\* C10: duplicate rejection. A save whose candidate has the sequence content
\* of a shortcut of the list, that shortcut having a different id or the
\* candidate having no id, issues neither a create nor an update call.
C10_DuplicateRejected ==
  (/\ lastSave # Null
   /\ \E i \in 1..Len(lastSave.known) :
         /\ lastSave.known[i].sequence = lastSave.candidate.sequence
         /\ ~(Has(lastSave.candidate, "id")
                /\ FieldEq(lastSave.known[i], lastSave.candidate, "id")))
    => lastSave.call = "none"

\* C11: a non-duplicate save is accepted. A save whose candidate has a
\* sequence content different from that of every shortcut of the list with
\* another id issues exactly one persistence call: update_shortcut with the
\* candidate itself when it has an id, add_shortcut with the candidate and
\* a new id otherwise.
C11_NonDuplicateAccepted ==
  (/\ lastSave # Null
   /\ \A i \in 1..Len(lastSave.known) :
         \/ lastSave.known[i].sequence # lastSave.candidate.sequence
         \/ (Has(lastSave.candidate, "id")
               /\ FieldEq(lastSave.known[i], lastSave.candidate, "id")))
    => /\ lastSave.call = IF Truthy(lastSave.candidate, "id")
                            THEN "update_shortcut" ELSE "add_shortcut"
       /\ \E r \in Pending(inflight) :
             /\ r.op = lastSave.call /\ r.phase = "sent"
             /\ IF r.op = "update_shortcut"
                  THEN r.arg = lastSave.candidate
                  ELSE /\ r.arg = Spread(lastSave.candidate, [id |-> r.arg.id])
                       /\ \A i \in 1..Len(lastSave.known) :
                             ~FieldEq(lastSave.known[i], r.arg, "id")

----------------------------------------------------------------------------
(* Properties of submit and of the JSON editor *)

\* C12: every candidate handed to onSave has a sequence that is a non-empty
\* list, whichever tab produced it, and a submit on the shortcut or record
\* tab with an empty sequence hands over nothing.
C12_HandedSequenceNonEmpty ==
  submitted.op = "submit" =>
    /\ submitted.handed =>
         /\ Get(submitted.shortcut, "sequence").t = "arr"
         /\ Len(Get(submitted.shortcut, "sequence").v) > 0
    /\ (submitted.tab # "json" /\ sequence = <<>>) => ~submitted.handed

\* C13: the candidate handed to onSave by the form of an existing shortcut
\* that has an id carries that id.
C13_IdStable ==
  (submitted.op = "submit" /\ submitted.handed
     /\ existingShortcut # Null /\ Has(existingShortcut, "id"))
    => /\ Get(submitted.shortcut, "id").t = "num"
       /\ Get(submitted.shortcut, "id").v = existingShortcut.id

\* C14: a submit on the json tab of a text that parses to a value without a
\* sequence or without a name sets the missing-fields error and hands no
\* candidate to onSave.
C14_MissingFieldsRejected ==
  (/\ submitted.op = "submit" /\ submitted.tab = "json"
   /\ JSONparse(submitted.text).ok
   /\ \/ Get(JSONparse(submitted.text).val, "sequence").t = "undefined"
      \/ Get(JSONparse(submitted.text).val, "name").t = "undefined")
    => (jsonError = MissingFieldsError /\ ~submitted.handed)

\* C15: a submit on the json tab of a text that is not well-formed JSON sets
\* the invalid-format error, hands no candidate to onSave, and changes
\* nothing else of the form: props, sequence, name, tab, capture and
\* recording flags, refs, timers, listeners and the text itself stay.
C15_MalformedRejected ==
  [][ (submitted'.op = "submit" /\ submitted'.tab = "json" /\ ~JSONparse(jsonInput).ok)
        => /\ jsonError' = InvalidJsonError
           /\ ~submitted'.handed
           /\ UNCHANGED <<propVars, stateVars, refVars, envVars, jsonInput>> ]_vars

\* C15 witness: a text cut short after its first key was submitted on the
\* json tab and refused.
C15_Witness ==
  /\ submitted.op = "submit" /\ submitted.tab = "json"
  /\ jsonInput = <<P("{"), Tok("str", "name")>>
  /\ jsonError = InvalidJsonError /\ ~submitted.handed

\* C16: round trip. A submit on the json tab of the text serialized from the
\* existing shortcut succeeds, and its candidate has the name and the
\* sequence of that shortcut.
C16_RoundTrip ==
  (/\ submitted.op = "submit" /\ submitted.tab = "json"
   /\ existingShortcut # Null
   /\ submitted.text = JSONstringify(JsShortcut(existingShortcut)))
    => /\ submitted.handed
       /\ Get(submitted.shortcut, "sequence") = JsSequence(existingShortcut.sequence)
       /\ IF Has(existingShortcut, "name")
            THEN Get(submitted.shortcut, "name") = JStr(existingShortcut.name)
            ELSE Get(submitted.shortcut, "name").t = "undefined"

----------------------------------------------------------------------------
(* Properties of the key handlers *)

\* C17: combination string. At a first key-down the key joins its held set
\* at the end unless it is already in it, and when a regular key is held the
\* combination scheduled is the display tokens of the held modifiers in press
\* order followed by those of the held regular keys in press order, joined
\* by "+": a function of the two held sets alone. The display token of " "
\* is Space, that of ArrowUp, ArrowDown, ArrowLeft, ArrowRight is Up, Down,
\* Left, Right, that of any other key is the key; the modifiers are Control,
\* Shift, Alt and Meta.
C17_CombinationString ==
  [][ LET Modifiers == {"Control", "Shift", "Alt", "Meta"}
          Token(k) == CASE k = " " -> "Space"
                        [] k = "ArrowUp" -> "Up"
                        [] k = "ArrowDown" -> "Down"
                        [] k = "ArrowLeft" -> "Left"
                        [] k = "ArrowRight" -> "Right"
                        [] OTHER -> k
          Tokens(s) == [i \in 1..Len(s) |-> Token(s[i])]
          key == lastInput'.key
      IN  /\ \A k \in Modifiers \cup {" ", "ArrowUp", "ArrowDown", "ArrowLeft",
                                      "ArrowRight", "a"} :
                /\ displayKey(k) = Token(k)
                /\ isModifierKey(k) <=> k \in Modifiers
          /\ (lastInput'.op = "keydown" /\ ~lastInput'.repeat) =>
                /\ modifierKeys' = IF key \in Modifiers /\ ~lastInput'.held
                                     THEN Append(modifierKeys, key) ELSE modifierKeys
                /\ regularKeys' = IF key \notin Modifiers /\ ~lastInput'.held
                                    THEN Append(regularKeys, key) ELSE regularKeys
                /\ Len(regularKeys') > 0 =>
                      \E t \in timers' :
                        /\ t.id = debounceTimeout'
                        /\ t.combo = Join(Tokens(modifierKeys' \o regularKeys'), "+") ]_vars

\* C17 witness: Shift, then Control, then the space bar went down; the timer
\* of the last key-down carries the modifiers in that order, then Space.
C17_Witness ==
  /\ lastInput.op = "keydown" /\ lastInput.key = " "
  /\ modifierKeys = <<"Shift", "Control">>
  /\ regularKeys = <<" ">>
  /\ \E t \in timers : t.id = debounceTimeout /\ t.combo = "Shift+Control+Space"

\* C18: no modifier-only chord. No pending timer and no commit carries a
\* combination made of modifiers alone (or of nothing), and a key-down after
\* which no regular key is held leaves the timers, the timer handle, the
\* sequence and the name as they were.
C18_NoModifierOnlyChord ==
  /\ [](LET Modifiers == {"Control", "Shift", "Alt", "Meta"}
            ModifierOnly == { Join(m, "+") :
                                m \in UNION { [1..n -> Modifiers] : n \in 0..2 } }
        IN  /\ \A t \in timers : t.combo \notin ModifierOnly
            /\ lastCommit \notin ModifierOnly)
  /\ [][ (lastInput'.op = "keydown" /\ Len(regularKeys') = 0)
           => UNCHANGED <<timers, debounceTimeout, sequence, name>> ]_vars

\* C18 witness: a first key-down of Control alone, while the timer of an
\* earlier, released key is still pending.
C18_Witness ==
  /\ lastInput = [op |-> "keydown", key |-> "Control", repeat |-> FALSE, held |-> FALSE]
  /\ modifierKeys = <<"Control">> /\ regularKeys = <<>>
  /\ \E t \in timers : t.id = debounceTimeout /\ t.combo = "Up"

\* C19: repeat immunity. A repeated key-down changes neither held set and
\* neither starts, restarts nor cancels a timer; the form's state is as it
\* was.
C19_RepeatImmunity ==
  [][ (lastInput'.op = "keydown" /\ lastInput'.repeat)
        => UNCHANGED <<modifierKeys, regularKeys, timers, debounceTimeout, dropped,
                       stateVars>> ]_vars

\* C19 witness: a repeated key-down of the held ArrowUp while its timer is
\* pending.
C19_Witness ==
  /\ lastInput = [op |-> "keydown", key |-> "ArrowUp", repeat |-> TRUE, held |-> TRUE]
  /\ regularKeys = <<"ArrowUp">>
  /\ \E t \in timers : t.id = debounceTimeout /\ t.combo = "Up"

\* C20: key-up. A key-up removes that key from the held set of its class,
\* keeps the other held keys in their order and changes nothing else: the
\* pending timer is neither cancelled nor restarted and keeps its value, and
\* the form's state is as it was.
C20_KeyUpOnlyReleases ==
  [][ lastInput'.op = "keyup" =>
        LET key == lastInput'.key
            isModifier == key \in {"Control", "Shift", "Alt", "Meta"}
            Without(s) == SelectSeq(s, LAMBDA x : x # key)
        IN  /\ modifierKeys' = IF isModifier THEN Without(modifierKeys) ELSE modifierKeys
            /\ regularKeys' = IF isModifier THEN regularKeys ELSE Without(regularKeys)
            /\ UNCHANGED <<timers, debounceTimeout, stateVars, activeTabRef,
                           isRecordingRef, tabsValue, listeners, jsonVars>> ]_vars

\* C20 witness: Control, Shift and the space bar went down and Control came
\* up: Shift and the space bar are still held and the timer still carries
\* the combination of the three.
C20_Witness ==
  /\ lastInput = [op |-> "keyup", key |-> "Control", repeat |-> FALSE, held |-> TRUE]
  /\ modifierKeys = <<"Shift">> /\ regularKeys = <<" ">>
  /\ \E t \in timers : t.id = debounceTimeout /\ t.combo = "Control+Shift+Space"

\* C21: one timer per surface. At most one debounce timer is pending, and a
\* first key-down that yields a combination leaves pending exactly the timer
\* it scheduled: the timer that was outstanding has been cancelled.
C21_OneTimerPending ==
  /\ [](Cardinality(timers) <= 1)
  /\ [][ (lastInput'.op = "keydown" /\ ~lastInput'.repeat /\ Len(regularKeys') > 0)
           => /\ Cardinality(timers') = 1
              /\ \A t \in timers' : t.id = debounceTimeout'
              /\ timers # {} => dropped'.op = "keyDown" ]_vars

\* C21 witness: ArrowUp went down, then Control while the timer of ArrowUp
\* was pending: that timer was cancelled and only the new one is pending.
C21_Witness ==
  /\ lastInput.op = "keydown" /\ lastInput.key = "Control"
  /\ dropped = [op |-> "keyDown", combo |-> "Up"]
  /\ Cardinality(timers) = 1
  /\ \A t \in timers : t.id = debounceTimeout /\ t.combo = "Control+Up"

\* C22: stop recording. The click on stop recording turns recording off,
\* leaves no timer pending, empties both held-key sets and keeps the
\* sequence; and as long as the record tab is not recording no timer is
\* pending, no key is held and no commit is delivered.
C22_StopRecordingSilences ==
  /\ []((activeTab = "record" /\ ~isRecording)
          => (timers = {} /\ modifierKeys = <<>> /\ regularKeys = <<>>
                /\ lastCommit = NONE))
  /\ [][ lastInput'.op = "stopRecording"
           => (~isRecording' /\ timers' = {} /\ modifierKeys' = <<>>
                 /\ regularKeys' = <<>> /\ sequence' = sequence) ]_vars

\* C22 witness: recording was stopped while a key was held and its timer
\* was pending, after one combination had been recorded.
C22_Witness ==
  /\ lastInput = [op |-> "stopRecording", pending |-> TRUE]
  /\ dropped.op = "stopRecording"
  /\ Len(sequence) = 1
  /\ ~isRecording /\ timers = {}

\* C23: never double-attached. At most one keydown/keyup handler pair of the
\* form is attached to window.
C23_NeverDoubleAttached ==
  listeners <= 1

\* C23 witness: the tab changed from the recording record tab, where the
\* handlers were attached and a timer was pending, to the shortcut tab,
\* where they are attached again.
C23_Witness ==
  /\ dropped.op = "tabChange"
  /\ activeTab = "shortcut"
  /\ listeners = 1

----------------------------------------------------------------------------
(* Properties of the step rows *)

\* C24: edit locality. Confirming the edit of step i with the text v keeps
\* the length of the sequence, makes element i equal to v and keeps every
\* other element; replacing at an index outside the sequence changes
\* nothing.
C24_EditLocality ==
  [][ lastInput'.op = "confirmEdit" =>
           /\ \A s \in UNION { [1..n -> {"Up", "X"}] : n \in 0..MaxSeq } :
                \A i \in (0 - 1)..MaxSeq, v \in {"", "X"} :
                   LET r == ReplaceAt(s, i, v)
                   IN  /\ Len(r) = Len(s)
                       /\ \A j \in 1..Len(s) : r[j] = IF j = i + 1 THEN v ELSE s[j]
                       /\ (i < 0 \/ i >= Len(s)) => r = s
           /\ Len(sequence') = Len(sequence)
           /\ \A j \in 1..Len(sequence) :
                 sequence'[j] = IF j = lastInput'.index + 1 THEN lastInput'.value
                                                            ELSE sequence[j] ]_vars

\* C24 witness: of the recorded steps Control+Up and Up the second was
\* edited to X and confirmed.
C24_Witness ==
  /\ lastInput = [op |-> "confirmEdit", index |-> 1, value |-> "X",
                  was |-> <<"Control+Up", "Up">>]
  /\ sequence = <<"Control+Up", "X">>

\* C25: deleteAt. Deleting the row of step i removes exactly element i: the
\* sequence is one shorter, the elements before i stay and those after i
\* move up by one in the same order; deleting at an index outside the
\* sequence changes nothing.
C25_DeleteAt ==
  [][ lastInput'.op = "deleteCombination" =>
           LET i == lastInput'.index
           IN  /\ \A s \in UNION { [1..n -> {"Up", "X"}] : n \in 0..MaxSeq } :
                    \A k \in (0 - 1)..MaxSeq :
                       LET r == DeleteAt(s, k)
                       IN  IF k < 0 \/ k >= Len(s)
                             THEN r = s
                             ELSE /\ Len(r) = Len(s) - 1
                                  /\ \A j \in 1..Len(r) :
                                        r[j] = IF j <= k THEN s[j] ELSE s[j + 1]
               /\ i >= 0 /\ i < Len(sequence)
               /\ Len(sequence') = Len(sequence) - 1
               /\ \A j \in 1..Len(sequence') :
                     sequence'[j] = IF j <= i THEN sequence[j] ELSE sequence[j + 1] ]_vars

\* C25 witness: of the steps Control+Up and Up the first was deleted.
C25_Witness ==
  /\ lastInput = [op |-> "deleteCombination", index |-> 0, value |-> "",
                  was |-> <<"Control+Up", "Up">>]
  /\ sequence = <<"Up">>

----------------------------------------------------------------------------
(* Properties of the candidates *)

\* C26: name default. A candidate handed to onSave from the shortcut tab or
\* from the record tab while the name of the form is empty carries as name
\* the first element of the sequence.
C26_NameDefaultsToFirst ==
  (submitted.op = "submit" /\ submitted.handed
     /\ submitted.tab \in {"shortcut", "record"} /\ name = "")
    => Get(submitted.shortcut, "name") = JStr(sequence[1])

\* C27: well-formed elements. Every element of the form's sequence, and of
\* the sequence of a candidate handed to onSave, is a combination string:
\* modifier tokens (none, one or more), then at least one regular-key token,
\* joined by "+".
C27_WellFormedElements ==
  LET ModifierTokens == {"Control", "Shift", "Alt", "Meta"}
      RegularTokens == {"Up", "Down", "Left", "Right", "Space", "X"}
      WellFormed ==
        { Join(m \o r, "+") :
            m \in UNION { [1..n -> ModifierTokens] : n \in 0..2 },
            r \in UNION { [1..n -> RegularTokens] : n \in 1..2 } }
      handedSequence == Get(submitted.shortcut, "sequence")
  IN  /\ \A i \in 1..Len(sequence) : sequence[i] \in WellFormed
      /\ (submitted.op = "submit" /\ submitted.handed) =>
            /\ handedSequence.t = "arr"
            /\ \A i \in 1..Len(handedSequence.v) :
                  /\ handedSequence.v[i].t = "str"
                  /\ handedSequence.v[i].v \in WellFormed

----------------------------------------------------------------------------
(* Properties of step editing *)

\* C28: entering StepEditing. While the open form shows the shortcut tab or
\* the record tab, recording or not, and no step is in edit, the edit of
\* every recorded step can be requested; on the JSON tab it cannot.
C28_StepEditingEntry ==
  (variant = "v2" /\ mounted /\ isOpen /\ activeTab = tabsValue)
    => /\ (activeTab \in {"shortcut", "record"} /\ editingIndex = NoIndex)
            => \A i \in 0..(Len(sequence) - 1) : ENABLED V2_handleEditStroke(i)
       /\ activeTab = "json"
            => \A i \in 0..(MaxSeq - 1) : ~ENABLED V2_handleEditStroke(i)

\* C29: leaving StepEditing. Confirm and cancel of a step edit end the edit
\* and empty the edit field, keep the active tab, the recording flag and
\* the capture flag, and leave one handler pair attached exactly when
\* capture is on on the shortcut tab or recording is on on the record tab;
\* cancel keeps the sequence.
C29_LeavingStepEditing ==
  [][ lastInput'.op \in {"confirmEdit", "cancelEdit"} =>
        /\ editingIndex # NoIndex /\ editingIndex' = NoIndex
        /\ editedStroke' = ""
        /\ activeTab' = activeTab /\ tabsValue' = tabsValue
        /\ isRecording' = isRecording /\ isCapturing' = isCapturing
        /\ listeners' = IF (isCapturing /\ activeTab = "shortcut")
                             \/ (isRecording /\ activeTab = "record")
                          THEN 1 ELSE 0
        /\ lastInput'.op = "cancelEdit" => sequence' = sequence ]_vars

\* C29 witness: the edit of the first recorded step was cancelled on the
\* record tab, which is not recording: no handler is attached.
C29_Witness ==
  /\ lastInput.op = "cancelEdit" /\ lastInput.index = 0
  /\ editingIndex = NoIndex
  /\ activeTab = "record" /\ ~isRecording
  /\ listeners = 0

----------------------------------------------------------------------------
(* Properties of failed persistence calls *)

\* C30: no retry. When an add, update or delete call fails, that call
\* leaves the calls in flight and no call is issued in its place, and the
\* shortcut list and the backing store are as they were.
C30_FailureNotRetried ==
  [][ (lastFailure' # Null
         /\ lastFailure'.op \in {"add_shortcut", "update_shortcut", "delete_shortcut"})
        => /\ inflight' = inflight (-) SetToBag({Request(lastFailure'.op, lastFailure'.arg)})
           /\ shortcuts' = shortcuts
           /\ store' = store
           /\ editingShortcut' = editingShortcut
           /\ isAddingShortcut' = isAddingShortcut ]_vars

\* C30 witness: the update of the shortcut in edit failed; nothing is in
\* flight and the edit form is still open.
C30_Witness ==
  /\ lastFailure # Null
  /\ lastFailure.op = "update_shortcut"
  /\ inflight = EmptyBag
  /\ editingShortcut # Null

----------------------------------------------------------------------------
(* Properties of overlapping saves and refreshes *)

\* C31: uniqueness under racing saves. No two shortcuts of the backing
\* store have the same sequence content, whatever the interleaving of the
\* saves, of their list refreshes and of failures.
C31_UniqueSequences ==
  \A i, j \in 1..Len(store) :
     i # j => store[i].sequence # store[j].sequence

\* C34: the list converges to the store. Whenever no invoke call is in
\* flight the shortcut list of the App is the content of the backing store.
C34_ListMatchesStore ==
  inflight = EmptyBag => shortcuts = store

----------------------------------------------------------------------------
(* Properties of the earlier form variant *)

\* C33: one-shot capture in the earlier variant. After a commit on the
\* shortcut tab of the open dialog capture is off and no handler is
\* attached, and while the dialog stays open on the shortcut tab with
\* capture off no step turns capture on, attaches a handler or delivers a
\* commit.
C33_V1StaysDisabled ==
  /\ []((variant = "v1" /\ isOpen /\ activeTab = "shortcut" /\ lastCommit # NONE)
          => (~isCapturing /\ listeners = 0))
  /\ [][ (variant = "v1" /\ isOpen /\ isOpen' /\ activeTab = "shortcut"
            /\ tabsValue' = tabsValue /\ ~isCapturing)
           => (~isCapturing' /\ listeners' = 0 /\ lastCommit' = NONE) ]_vars

----------------------------------------------------------------------------
(* Properties of step editing with rows deleted meanwhile *)

\* C32: the edit lands on the selected step. Confirming an edit changes no
\* step other than the one the user selected for editing, wherever the
\* deletion of other rows has moved it, and no step at all when the
\* selected step has itself been deleted.
C32_EditLandsOnSelected ==
  [][ lastInput'.op = "confirmEdit" =>
        /\ Len(sequence') = Len(sequence)
        /\ \A j \in 1..Len(sequence) :
              j # selectedStep + 1 => sequence'[j] = sequence[j] ]_vars
====
